---- MODULE Spec2Model ----
\* Verification model of the owl-squad email finder: the SMTP multi-probe,
\* the catch-all analyzer, verify_email, verify_bulk_emails (src/verifier.py
\* and src/main.py) and find_email_for_person (src/main.py).
EXTENDS Integers, Sequences, FiniteSets, TLC

\* ---------------------------------------------------------------- bounds
\* Number of person-derived candidates generate_patterns yields.
NumCandidates == 2
\* Number of generic role addresses taken from the head of GENERAL_ADDRESSES.
NumGeneral == 1
\* Largest batch_size and max_workers a request carries.
MaxBatch == 2
MaxWorkers == 2
\* Latencies are drawn from 1..MaxLatency steps of 0.75 ms.
MaxLatency == 2
\* Largest batch handed to verify_batch.
BatchLen == 6

\* ------------------------------------------------------------- constants
\* Python's None where an integer is expected (a code or a latency).
None == -1
\* round(x, 2): latencies are kept in hundredths of a millisecond.
LatencyScale == 100

\* verification_score, in hundredths.
SCORE_OK == 98
SCORE_CATCH_ALL == 85
SCORE_ZERO == 0

Modules == {"main", "verifier"}

\* ---------------------------------------------------------- data domains
\* A message text is its head (everything before the last 80
\* characters, "" when the text is not longer than the window) and its tail
\* (the last 80 characters, what m[-80:] keeps).
Msg(h, t) == [head |-> h, tail |-> t]
NoMsg == Msg("None", "None")
AllMsgs == {Msg("", "ok"), Msg("x", "ok"), Msg("", "no")}
BulkMsgs == {Msg("", "no")}

AllCodes == {250, 550, 450}

\* Steps of 0.75 ms, in hundredths of a millisecond.
AllLatencies == {k * 75 : k \in 1..MaxLatency}

\* What one s.rcpt(addr) call does: it returns (code, msg), or it raises and
\* the handler stores (None, str(e)).
Reply(c, m, t) == [code |-> c, msg |-> m, latency |-> t]
\* A reply text whose bytes are not valid UTF-8: msg.decode() raises on it.
Garbled == Msg("", "garbled")
\* str(e) of the UnicodeDecodeError.
DecodeError == Msg("", "codec")
AllReplies ==
    {Reply(c, m, t) : c \in AllCodes \cup {None}, m \in AllMsgs, t \in AllLatencies}
        \cup {Reply(250, Garbled, 75)}
\* The replies of an ordinary exchanger: accepted or rejected.
BulkReplies == {Reply(250, Msg("", "ok"), 75), Reply(550, Msg("", "no"), 75)}

\* random_local(): the random local-part of a decoy address.
AllLocals == {"r1", "r2"}
BulkLocals == {"r1"}

\* ------------------------------------------------------- pure functions
RECURSIVE SumSeq(_)
SumSeq(s) == IF s = <<>> THEN 0 ELSE Head(s) + SumSeq(Tail(s))

Range(s) == {s[i] : i \in 1..Len(s)}

MaxOf(S) == CHOOSE x \in S : \A y \in S : y <= x
MinOf(S) == CHOOSE x \in S : \A y \in S : x <= y

\* m[-80:]
Truncate(m) == m.tail

\* One probe record (addr, code, msg, latency).
ProbeRecord(a, c, m, t) == [addr |-> a, code |-> c, msg |-> m, latency |-> t]

\* The record the outer handler of smtp_multi_probe appends.
ConnectRecord(m) == ProbeRecord("__connect__", None, m, None)

\* ------------------------------------------------ catch-all analyzer
\* codes = [c for _, c, *_ in seq if c is not None]
CodesOf(seq) == SelectSeq([i \in 1..Len(seq) |-> seq[i].code], LAMBDA c : c # None)

\* msgs = [m[-80:] for *_, m, _ in seq if isinstance(m, str)]
MsgsOf(seq) == [i \in 1..Len(seq) |-> Truncate(seq[i].msg)]

\* latencies = [t for *_, t in seq if isinstance(t, (int, float))]
LatenciesOf(seq) == SelectSeq([i \in 1..Len(seq) |-> seq[i].latency], LAMBDA t : t # None)

\* entropy = len(set(msgs))
Entropy(seq) == Cardinality(Range(MsgsOf(seq)))

\* delta = int(max(latencies) - min(latencies)) if latencies else 0
Delta(seq) ==
    LET ls == LatenciesOf(seq)
    IN  IF ls = <<>> THEN 0
        ELSE (MaxOf(Range(ls)) - MinOf(Range(ls))) \div LatencyScale

\* int(mean(latencies)) if latencies else None
AvgLatency(seq) ==
    LET ls == LatenciesOf(seq)
    IN  IF ls = <<>> THEN None
        ELSE SumSeq(ls) \div (Len(ls) * LatencyScale)

Analysis(r, e, d, ca, rc, avg) ==
    [raised |-> r, entropy |-> e, delta |-> d, is_catch_all |-> ca,
     real_code |-> rc, avg_latency |-> avg]

\* Variant of AnalysisBody that counts two accepted decoys as a catch-all
\* only when the two decoy addresses differ.
AnalysisBodyDistinctDecoys(seq) ==
    LET codes == CodesOf(seq)
        fake1 == codes[1]
        real == codes[2]
        fake2 == codes[3]
        catch_all == (fake1 = 250 /\ fake2 = 250 /\ seq[1].addr # seq[3].addr)
        flat_entropy == (Entropy(seq) = 1)
        is_catch_all == catch_all \/ (flat_entropy /\ real = 250)
    IN  Analysis(FALSE, Entropy(seq), Delta(seq), is_catch_all, real, AvgLatency(seq))

\* The analysis the body computes when codes[0], codes[1], codes[2] exist.
AnalysisBody(seq) ==
    LET codes == CodesOf(seq)
        fake1 == codes[1]
        real == codes[2]
        fake2 == codes[3]
        catch_all == (fake1 = 250 /\ fake2 = 250)
        flat_entropy == (Entropy(seq) = 1)
        is_catch_all == catch_all \/ (flat_entropy /\ real = 250)
    IN  Analysis(FALSE, Entropy(seq), Delta(seq), is_catch_all, real, AvgLatency(seq))

\* src/main.py: codes[k] on a short list raises IndexError to the caller.
\* src/verifier.py: the try/except returns the fallback analysis.
analyze_entropy_and_catchall(mod, seq) ==
    IF Len(CodesOf(seq)) >= 3 THEN AnalysisBody(seq)
    ELSE IF mod = "verifier" THEN Analysis(FALSE, 0, 0, FALSE, None, None)
    ELSE Analysis(TRUE, 0, 0, FALSE, None, None)

\* ---------------------------------------------------------- verify_email
\* details.is_catch_all is None until the analysis stores a boolean.
BoolTag(b) == IF b THEN "True" ELSE "False"

Result(e, st, dl, sc, code, m, lat, ca, why) ==
    [email |-> e, status |-> st, deliverable |-> dl, verification_score |-> sc,
     code |-> code, message |-> m, latency_ms |-> lat, is_catch_all |-> ca,
     reasoning |-> why]

\* The result dictionary verify_email starts from.
InitialResult(e) ==
    Result(e, "undeliverable", FALSE, SCORE_ZERO, None, NoMsg, None, "None", "None")

BadSyntaxResult(e) == [InitialResult(e) EXCEPT !.reasoning = "bad_syntax"]

NoMxResult(e) == [InitialResult(e) EXCEPT !.reasoning = "no_mx"]

\* The decision table with the catch-all flag overriding an accepted code.
DecisionCatchAllRejects(real_code, is_catch_all) ==
    IF real_code = 250 /\ ~is_catch_all
    THEN [status |-> "deliverable", deliverable |-> TRUE,
          verification_score |-> SCORE_OK, reasoning |-> "250_ok"]
    ELSE IF real_code = 550
    THEN [status |-> "undeliverable", deliverable |-> FALSE,
          verification_score |-> SCORE_ZERO, reasoning |-> "550_hard_fail"]
    ELSE [status |-> "undeliverable", deliverable |-> FALSE,
          verification_score |-> SCORE_ZERO, reasoning |-> "smtp_error"]

\* Variant of Decision that gives a temporary rejection (450) half the score
\* of an accepted address.
DecisionScoresGreylist(real_code, is_catch_all) ==
    IF real_code = 250
    THEN [status |-> "deliverable", deliverable |-> TRUE,
          verification_score |-> IF ~is_catch_all THEN SCORE_OK ELSE SCORE_CATCH_ALL,
          reasoning |-> "250_ok"]
    ELSE IF real_code = 550
    THEN [status |-> "undeliverable", deliverable |-> FALSE,
          verification_score |-> SCORE_ZERO, reasoning |-> "550_hard_fail"]
    ELSE IF real_code = 450
    THEN [status |-> "undeliverable", deliverable |-> FALSE,
          verification_score |-> SCORE_OK \div 2, reasoning |-> "smtp_error"]
    ELSE [status |-> "undeliverable", deliverable |-> FALSE,
          verification_score |-> SCORE_ZERO, reasoning |-> "smtp_error"]

\* The decision table: the fields the if/elif/else on real_code sets.
Decision(real_code, is_catch_all) ==
    IF real_code = 250
    THEN [status |-> "deliverable", deliverable |-> TRUE,
          verification_score |-> IF ~is_catch_all THEN SCORE_OK ELSE SCORE_CATCH_ALL,
          reasoning |-> "250_ok"]
    ELSE IF real_code = 550
    THEN [status |-> "undeliverable", deliverable |-> FALSE,
          verification_score |-> SCORE_ZERO, reasoning |-> "550_hard_fail"]
    ELSE [status |-> "undeliverable", deliverable |-> FALSE,
          verification_score |-> SCORE_ZERO, reasoning |-> "smtp_error"]

\* verify_email from the analysis on: [raised, result].
VerifyTail(mod, e, seq) ==
    LET analysis == analyze_entropy_and_catchall(mod, seq)
        d == Decision(analysis.real_code, analysis.is_catch_all)
    IN  IF analysis.raised
        THEN [raised |-> TRUE, result |-> InitialResult(e)]
        ELSE [raised |-> FALSE,
              result |-> Result(e, d.status, d.deliverable, d.verification_score,
                                analysis.real_code,
                                IF Len(seq) > 1 THEN seq[2].msg ELSE NoMsg,
                                analysis.delta, BoolTag(analysis.is_catch_all),
                                d.reasoning)]

\* ------------------------------------------------------------------ state
VARIABLES
    module,       \* which file's functions run: "main" or "verifier"
    candidates,   \* generate_patterns(...) / the emails argument
    batch_size,   \* find_email_for_person's batch_size
    max_workers,  \* the pool's max_workers
    cpc,          \* where the coordinator is
    phase,        \* "personal" or "general" loop of find_email_for_person
    offset,       \* the loop variable i of range(0, len(...), batch_size)
    batch,        \* the emails handed to the running verify_bulk_emails
    tried,        \* find_email_for_person's tried list
    results,      \* verify_bulk_emails' results list
    collected,    \* futures as_completed has yielded
    ret,          \* the value the coordinator returned
    wpc,          \* per future: where its verify_email call is
    addrs,        \* per future: smtp_multi_probe's local seq (the addresses)
    seq,          \* per future: smtp_multi_probe's results list
    fut,          \* per future: pending, or done with a result or an exception
    calls,        \* per future: the network operations issued so far, in order
    open,          \* emails whose SMTP session is connected and not quit
    dispatched,   \* history: the emails handed to verify_bulk_emails so far
    rejected      \* history: the emails whose result the scan found not deliverable

vars == <<module, candidates, batch_size, max_workers, cpc, phase, offset, batch,
          tried, results, collected, ret, wpc, addrs, seq, fut, calls, open,
          dispatched, rejected>>

coordVars == <<cpc, phase, offset, batch, tried, results, collected, ret,
               dispatched, rejected>>
inputVars == <<module, candidates, batch_size, max_workers>>

\* Person-derived candidate i and generic address i, as addresses.
Person(i) == <<"person", i>>
Generic(i) == <<"general", i>>

\* general = [f"{g}@{domain}" for g in GENERAL_ADDRESSES], cut to NumGeneral.
GeneralList == [i \in 1..NumGeneral |-> Generic(i)]

Slots == 1..Len(batch)

Pending == [state |-> "pending", raised |-> FALSE, result |-> InitialResult(<<"none", 0>>)]
Done(out) == [state |-> "done", raised |-> out.raised, result |-> out.result]

Min(a, b) == IF a < b THEN a ELSE b

\* --------------------------------------------------------- verify_email
\* A pool thread takes the oldest queued work item.
PoolStart(k) ==
    /\ cpc \in {"collect", "unwind"}
    /\ wpc[k] = "queued"
    /\ \A j \in Slots : j < k => wpc[j] # "queued"
    /\ Cardinality({j \in Slots : wpc[j] \notin {"queued", "done"}}) < max_workers
    /\ wpc' = [wpc EXCEPT ![k] = "verify"]
    /\ UNCHANGED <<inputVars, coordVars, addrs, seq, fut, calls, open>>

\* Variant of StartOutcome that resolves the domain before it looks at the
\* syntax of the address.
StartOutcomeLookupFirst(e, syntax_ok, mx) ==
    IF ~syntax_ok
    THEN [returns |-> TRUE, result |-> BadSyntaxResult(e), issued |-> <<"mx">>]
    ELSE IF mx # "ok"
    THEN [returns |-> TRUE, result |-> NoMxResult(e), issued |-> <<"mx">>]
    ELSE [returns |-> FALSE, result |-> InitialResult(e), issued |-> <<"mx">>]

\* Variant of StartOutcome that repeats a failed MX lookup once before it
\* gives up.
StartOutcomeRetriesLookup(e, syntax_ok, mx) ==
    IF ~syntax_ok
    THEN [returns |-> TRUE, result |-> BadSyntaxResult(e), issued |-> <<>>]
    ELSE IF mx # "ok"
    THEN [returns |-> TRUE, result |-> NoMxResult(e), issued |-> <<"mx", "mx">>]
    ELSE [returns |-> FALSE, result |-> InitialResult(e), issued |-> <<"mx">>]

\* verify_email up to the call of smtp_multi_probe, for an email that passes
\* the syntax pattern or not and an MX lookup that raises ("error"), returns
\* no record ("empty") or returns records ("ok"): whether the call returns
\* here, with which result, and the network operations it issued.
StartOutcome(e, syntax_ok, mx) ==
    IF ~syntax_ok
    THEN [returns |-> TRUE, result |-> BadSyntaxResult(e), issued |-> <<>>]
    ELSE IF mx # "ok"
    THEN [returns |-> TRUE, result |-> NoMxResult(e), issued |-> <<"mx">>]
    ELSE [returns |-> FALSE, result |-> InitialResult(e), issued |-> <<"mx">>]

\* verify_email up to the call of smtp_multi_probe: the syntax check and the
\* MX lookup (which raises, returns no record, or returns records).
VerifyStart(k) ==
    /\ wpc[k] = "verify"
    /\ \E syntax_ok \in BOOLEAN, mx \in {"ok", "error", "empty"} :
        LET out == StartOutcome(batch[k], syntax_ok, mx)
        IN  /\ fut' = IF out.returns
                      THEN [fut EXCEPT ![k] = Done([raised |-> FALSE, result |-> out.result])]
                      ELSE fut
            /\ wpc' = [wpc EXCEPT ![k] = IF out.returns THEN "done" ELSE "probe"]
            /\ calls' = [calls EXCEPT ![k] = @ \o out.issued]
    /\ UNCHANGED <<inputVars, coordVars, addrs, seq, open>>

\* smtp_multi_probe up to the loop: the three addresses, then connect, helo
\* and mail inside the outer try. A failure appends the "__connect__" record
\* and returns; s.quit() is not reached, so after a successful connect the
\* session is closed only if the transport dropped it when it raised.
ProbeConnect(k, Locals, Texts) ==
    /\ wpc[k] = "probe"
    /\ \E d1 \in Locals, d2 \in Locals, how \in {"connect", "helo", "mail", "ok"},
          m \in Texts, dropped \in BOOLEAN :
        /\ addrs' = [addrs EXCEPT ![k] = << <<"decoy", d1>>, batch[k], <<"decoy", d2>> >>]
        /\ CASE how = "connect" ->
                   /\ seq' = [seq EXCEPT ![k] = <<ConnectRecord(m)>>]
                   /\ calls' = [calls EXCEPT ![k] = @ \o <<"connect">>]
                   /\ dropped
                   /\ open' = open
                   /\ wpc' = [wpc EXCEPT ![k] = "analyze"]
             [] how = "helo" ->
                   /\ seq' = [seq EXCEPT ![k] = <<ConnectRecord(m)>>]
                   /\ calls' = [calls EXCEPT ![k] = @ \o <<"connect", "helo">>]
                   /\ open' = IF dropped THEN open ELSE open \cup {batch[k]}
                   /\ wpc' = [wpc EXCEPT ![k] = "analyze"]
             [] how = "mail" ->
                   /\ seq' = [seq EXCEPT ![k] = <<ConnectRecord(m)>>]
                   /\ calls' = [calls EXCEPT ![k] = @ \o <<"connect", "helo", "mail">>]
                   /\ open' = IF dropped THEN open ELSE open \cup {batch[k]}
                   /\ wpc' = [wpc EXCEPT ![k] = "analyze"]
             [] how = "ok" ->
                   /\ m = CHOOSE x \in Texts : TRUE
                   /\ ~dropped
                   /\ seq' = [seq EXCEPT ![k] = <<>>]
                   /\ calls' = [calls EXCEPT ![k] = @ \o <<"connect", "helo", "mail">>]
                   /\ open' = open \cup {batch[k]}
                   /\ wpc' = [wpc EXCEPT ![k] = "rcpt"]
    /\ UNCHANGED <<inputVars, coordVars, fut>>

\* One pass of the for loop: s.rcpt(addr) returns (code, msg) or raises, and
\* the record is appended either way. msg.decode() is outside the inner try:
\* on a reply that does not decode, the outer handler appends the
\* "__connect__" record and the function returns without s.quit().
ProbeRcpt(k, Replies) ==
    /\ wpc[k] = "rcpt"
    /\ \E r \in Replies :
        LET addr == addrs[k][Len(seq[k]) + 1]
            next == Append(seq[k], ProbeRecord(addr, r.code, r.msg, r.latency))
        IN  IF r.code # None /\ r.msg = Garbled
            THEN /\ seq' = [seq EXCEPT ![k] = Append(@, ConnectRecord(DecodeError))]
                 /\ wpc' = [wpc EXCEPT ![k] = "analyze"]
            ELSE /\ seq' = [seq EXCEPT ![k] = next]
                 /\ wpc' = [wpc EXCEPT ![k] = IF Len(next) = 3 THEN "quit" ELSE "rcpt"]
    /\ calls' = [calls EXCEPT ![k] = Append(@, "rcpt")]
    /\ UNCHANGED <<inputVars, coordVars, addrs, fut, open>>

\* s.quit(): it closes the session, or it raises and the outer handler
\* appends the "__connect__" record after the recipient records; the session
\* is then closed only if the transport dropped it when it raised.
ProbeQuit(k, Texts) ==
    /\ wpc[k] = "quit"
    /\ \/ /\ open' = open \ {batch[k]}
          /\ seq' = seq
       \/ \E m \in Texts, dropped \in BOOLEAN :
          /\ seq' = [seq EXCEPT ![k] = Append(@, ConnectRecord(m))]
          /\ open' = IF dropped THEN open \ {batch[k]} ELSE open
    /\ calls' = [calls EXCEPT ![k] = Append(@, "quit")]
    /\ wpc' = [wpc EXCEPT ![k] = "analyze"]
    /\ UNCHANGED <<inputVars, coordVars, addrs, fut>>

\* The rest of verify_email: the analysis and the decision. The call returns
\* or raises, which completes the future.
VerifyFinish(k) ==
    /\ wpc[k] = "analyze"
    /\ fut' = [fut EXCEPT ![k] = Done(VerifyTail(module, batch[k], seq[k]))]
    /\ wpc' = [wpc EXCEPT ![k] = "done"]
    /\ seq' = [seq EXCEPT ![k] = <<>>]
    /\ addrs' = [addrs EXCEPT ![k] = <<>>]
    /\ UNCHANGED <<inputVars, coordVars, calls, open>>

\* ------------------------------------------- verify_bulk_emails (both files)
\* The futures of a fresh ThreadPoolExecutor: every email submitted, queued.
Submit(emails) ==
    /\ batch' = emails
    /\ results' = <<>>
    /\ collected' = {}
    /\ wpc' = [k \in 1..Len(emails) |-> "queued"]
    /\ addrs' = [k \in 1..Len(emails) |-> <<>>]
    /\ seq' = [k \in 1..Len(emails) |-> <<>>]
    /\ fut' = [k \in 1..Len(emails) |-> Pending]
    /\ calls' = [k \in 1..Len(emails) |-> <<>>]
    /\ cpc' = "collect"
    /\ dispatched' = dispatched \cup Range(emails)

\* src/verifier.py's verify_bulk_emails called on the whole list.
CallBulk ==
    /\ cpc = "loop"
    /\ module = "verifier"
    /\ Submit(candidates)
    /\ UNCHANGED <<inputVars, phase, offset, tried, ret, open, rejected>>

\* for f in as_completed(futures): f.result() is appended, or it raises.
\* src/main.py lets the exception leave the loop (the with block then waits
\* for the pool); src/verifier.py logs it and goes on.
Collect(k) ==
    /\ cpc = "collect"
    /\ k \in Slots \ collected
    /\ fut[k].state = "done"
    /\ IF fut[k].raised
       THEN IF module = "main"
            THEN /\ cpc' = "unwind"
                 /\ UNCHANGED <<results, collected>>
            ELSE /\ collected' = collected \cup {k}
                 /\ UNCHANGED <<results, cpc>>
       ELSE /\ results' = Append(results, fut[k].result)
            /\ collected' = collected \cup {k}
            /\ cpc' = cpc
    /\ UNCHANGED <<inputVars, phase, offset, batch, tried, ret, wpc, addrs, seq, fut, calls, open,
                   dispatched, rejected>>

\* The exception leaves the with block once shutdown(wait=True) has joined
\* every work item, and then leaves verify_bulk_emails and its caller.
Unwind ==
    /\ cpc = "unwind"
    /\ \A k \in Slots : wpc[k] = "done"
    /\ cpc' = "raised"
    /\ UNCHANGED <<inputVars, phase, offset, batch, tried, results, collected, ret,
                   wpc, addrs, seq, fut, calls, open, dispatched, rejected>>

\* as_completed is exhausted: verify_bulk_emails returns results.
BulkReturn ==
    /\ cpc = "collect"
    /\ collected = Slots
    /\ IF module = "verifier"
       THEN /\ ret' = [status |-> "bulk", results |-> results]
            /\ cpc' = "returned"
       ELSE /\ ret' = ret
            /\ cpc' = "scan"
    /\ UNCHANGED <<inputVars, phase, offset, batch, tried, results, collected,
                   wpc, addrs, seq, fut, calls, open, dispatched, rejected>>

\* ------------------------------------------- find_email_for_person (main.py)
CurrentList == IF phase = "personal" THEN candidates ELSE GeneralList

\* range(0, len(list), batch_size): the loop body runs for the offsets below
\* the length when the step is positive, never when it is negative.
\* batch = list[i:i+batch_size]; verify_bulk_emails(batch, max_workers).
NextChunk ==
    /\ cpc = "loop"
    /\ module = "main"
    /\ batch_size > 0
    /\ offset < Len(CurrentList)
    /\ LET chunk == SubSeq(CurrentList, offset + 1, Min(offset + batch_size, Len(CurrentList)))
       IN  /\ Submit(chunk)
           /\ tried' = IF phase = "personal" THEN tried \o chunk ELSE tried
    /\ UNCHANGED <<inputVars, phase, offset, ret, open, rejected>>

\* Variant of FirstDeliverable that looks at the first result only.
FirstDeliverableHeadOnly(rs) ==
    IF rs # <<>> /\ rs[1].deliverable THEN 1 ELSE 0

\* The first result of the chunk, in completion order, with r.get("deliverable").
FirstDeliverable(rs) ==
    LET hits == {i \in 1..Len(rs) : rs[i].deliverable}
    IN  IF hits = {} THEN 0 ELSE MinOf(hits)

\* for r in results: if r.get("deliverable"): return {...}; else the next i.
Scan ==
    /\ cpc = "scan"
    /\ LET i == FirstDeliverable(results)
       IN  IF i # 0
           THEN /\ ret' = [status |-> IF phase = "personal" THEN "found" ELSE "found_company",
                           email |-> results[i].email, record |-> results[i], tried |-> tried]
                /\ cpc' = "returned"
                /\ offset' = offset
                /\ rejected' = rejected \cup {results[j].email : j \in 1..(i - 1)}
           ELSE /\ ret' = ret
                /\ cpc' = "loop"
                /\ offset' = offset + batch_size
                /\ rejected' = rejected \cup {results[j].email : j \in 1..Len(results)}
    /\ UNCHANGED <<inputVars, phase, batch, tried, results, collected,
                   wpc, addrs, seq, fut, calls, open, dispatched>>

\* The personal loop ends without a return: tried.extend(general).
Escalate ==
    /\ cpc = "loop"
    /\ module = "main"
    /\ phase = "personal"
    /\ offset >= Len(candidates) \/ batch_size < 0
    /\ phase' = "general"
    /\ offset' = 0
    /\ tried' = tried \o GeneralList
    /\ UNCHANGED <<inputVars, cpc, batch, results, collected, ret,
                   wpc, addrs, seq, fut, calls, open, dispatched, rejected>>

\* Both loops end without a return.
ReturnNotFound ==
    /\ cpc = "loop"
    /\ module = "main"
    /\ phase = "general"
    /\ offset >= Len(GeneralList) \/ batch_size < 0
    /\ ret' = [status |-> "not_found", tried |-> tried]
    /\ cpc' = "returned"
    /\ UNCHANGED <<inputVars, phase, offset, batch, tried, results, collected,
                   wpc, addrs, seq, fut, calls, open, dispatched, rejected>>

\* range(0, len(candidates), 0) raises ValueError, which ends the call.
RangeRaises ==
    /\ cpc = "loop"
    /\ module = "main"
    /\ batch_size = 0
    /\ cpc' = "raised"
    /\ UNCHANGED <<inputVars, phase, offset, batch, tried, results, collected, ret,
                   wpc, addrs, seq, fut, calls, open, dispatched, rejected>>

\* ---------------------------------------------------------- specifications
\* A call of find_email_for_person (main) or of verify_bulk_emails (verifier).
Init ==
    /\ module \in Modules
    /\ \E n \in 0..NumCandidates : candidates = [i \in 1..n |-> Person(i)]
    /\ batch_size \in 1..MaxBatch
    /\ module = "verifier" => batch_size = 1
    /\ max_workers \in 1..MaxWorkers
    /\ cpc = "loop"
    /\ phase = "personal"
    /\ offset = 0
    /\ batch = <<>>
    /\ tried = <<>>
    /\ results = <<>>
    /\ collected = {}
    /\ ret = [status |-> "none"]
    /\ wpc = <<>>
    /\ addrs = <<>>
    /\ seq = <<>>
    /\ fut = <<>>
    /\ calls = <<>>
    /\ open = {}
    /\ dispatched = {}
    /\ rejected = {}

Next ==
    \/ CallBulk
    \/ NextChunk
    \/ \E k \in Slots : PoolStart(k)
    \/ \E k \in Slots : VerifyStart(k)
    \/ \E k \in Slots : ProbeConnect(k, BulkLocals, BulkMsgs)
    \/ \E k \in Slots : ProbeRcpt(k, BulkReplies)
    \/ \E k \in Slots : ProbeQuit(k, BulkMsgs)
    \/ \E k \in Slots : VerifyFinish(k)
    \/ \E k \in Slots : Collect(k)
    \/ Unwind
    \/ BulkReturn
    \/ Scan
    \/ Escalate
    \/ ReturnNotFound

Spec == Init /\ [][Next]_vars

\* One direct call of verify_email(email), the transport's answers drawn
\* from the full reply domain.
InitVerify ==
    /\ module \in Modules
    /\ candidates = <<Person(1)>>
    /\ batch_size = 1
    /\ max_workers = 1
    /\ cpc = "direct"
    /\ phase = "personal"
    /\ offset = 0
    /\ batch = <<Person(1)>>
    /\ tried = <<>>
    /\ results = <<>>
    /\ collected = {}
    /\ ret = [status |-> "none"]
    /\ wpc = <<"verify">>
    /\ addrs = << <<>> >>
    /\ seq = << <<>> >>
    /\ fut = <<Pending>>
    /\ calls = << <<>> >>
    /\ open = {}
    /\ dispatched = {}
    /\ rejected = {}

NextVerify ==
    \/ VerifyStart(1)
    \/ ProbeConnect(1, AllLocals, AllMsgs)
    \/ ProbeRcpt(1, AllReplies)
    \/ ProbeQuit(1, BulkMsgs)
    \/ VerifyFinish(1)

SpecVerify == InitVerify /\ [][NextVerify]_vars

\* find_email_for_person alone: src/main.py's functions, no direct call of
\* verify_bulk_emails.
InitFind == Init /\ module = "main"

NextFind ==
    \/ NextChunk
    \/ \E k \in Slots : PoolStart(k)
    \/ \E k \in Slots : VerifyStart(k)
    \/ \E k \in Slots : ProbeConnect(k, BulkLocals, BulkMsgs)
    \/ \E k \in Slots : ProbeRcpt(k, BulkReplies)
    \/ \E k \in Slots : ProbeQuit(k, BulkMsgs)
    \/ \E k \in Slots : VerifyFinish(k)
    \/ \E k \in Slots : Collect(k)
    \/ Unwind
    \/ BulkReturn
    \/ Scan
    \/ Escalate
    \/ ReturnNotFound

SpecFind == InitFind /\ [][NextFind]_vars

\* find_email_for_person as the /find endpoint calls it: FinderRequest takes
\* any integer as batch_size and passes it on unchecked.
BatchSizes == (0 - MaxBatch)..MaxBatch

InitRequest ==
    /\ module = "main"
    /\ \E n \in 0..NumCandidates : candidates = [i \in 1..n |-> Person(i)]
    /\ batch_size \in BatchSizes
    /\ max_workers \in 1..MaxWorkers
    /\ cpc = "loop"
    /\ phase = "personal"
    /\ offset = 0
    /\ batch = <<>>
    /\ tried = <<>>
    /\ results = <<>>
    /\ collected = {}
    /\ ret = [status |-> "none"]
    /\ wpc = <<>>
    /\ addrs = <<>>
    /\ seq = <<>>
    /\ fut = <<>>
    /\ calls = <<>>
    /\ open = {}
    /\ dispatched = {}
    /\ rejected = {}

NextRequest ==
    \/ NextFind
    \/ RangeRaises

SpecRequest == InitRequest /\ [][NextRequest]_vars

\* ------------------------------------ verify_batch (exhaustive-then-score)
\* finder.py imports verify_batch from verifier; the function is not in the
\* source tree. It is modelled from the documented policy: collect every
\* result, then choose the first candidate whose latency exceeds the batch
\* mean plus two standard deviations, else the first deliverable result,
\* else none.
BatchResult(e, c, t) ==
    [email |-> e, smtp_code |-> c, latency |-> t, deliverable |-> (c = 250)]

\* Probe latencies of a batch, in milliseconds.
BatchLatencies == {1, 9}

NoChoice == [email |-> <<"none", 0>>]

\* x > mean + 2 * stddev over the latencies ls (population deviation), in
\* integers: with n = Len(ls), S the sum and Q the sum of squares,
\* stddev = sqrt(n*Q - S*S) / n, so the test is n*x - S > 2 * sqrt(n*Q - S*S).
ExceedsTwoSigma(x, ls) ==
    LET n == Len(ls)
        S == SumSeq(ls)
        Q == SumSeq([i \in 1..n |-> ls[i] * ls[i]])
        d == n * x - S
    IN  d > 0 /\ d * d > 4 * (n * Q - S * S)

Outliers(rs) ==
    LET ls == [i \in 1..Len(rs) |-> rs[i].latency]
    IN  {i \in 1..Len(rs) : ExceedsTwoSigma(rs[i].latency, ls)}

Deliverables(rs) == {i \in 1..Len(rs) : rs[i].deliverable}

\* Variant of Chosen that prefers the first deliverable result and uses the
\* timing outlier only when nothing is deliverable.
ChosenDeliverableFirst(rs) ==
    IF Deliverables(rs) # {} THEN rs[MinOf(Deliverables(rs))]
    ELSE IF Outliers(rs) # {} THEN rs[MinOf(Outliers(rs))]
    ELSE NoChoice

\* The chosen result of a batch.
Chosen(rs) ==
    IF Outliers(rs) # {} THEN rs[MinOf(Outliers(rs))]
    ELSE IF Deliverables(rs) # {} THEN rs[MinOf(Deliverables(rs))]
    ELSE NoChoice

\* One more candidate of the batch has been verified.
BatchVerify ==
    /\ cpc = "batch"
    /\ Len(results) < Len(candidates)
    /\ \E c \in {250, 550}, t \in BatchLatencies :
        results' = Append(results, BatchResult(candidates[Len(results) + 1], c, t))
    /\ UNCHANGED <<inputVars, cpc, phase, offset, batch, tried, collected, ret,
                   wpc, addrs, seq, fut, calls, open, dispatched, rejected>>

\* Every result is in: verify_batch returns the results and the chosen one.
BatchChoose ==
    /\ cpc = "batch"
    /\ Len(results) = Len(candidates)
    /\ ret' = [status |-> "batch", results |-> results, chosen |-> Chosen(results)]
    /\ cpc' = "returned"
    /\ UNCHANGED <<inputVars, phase, offset, batch, tried, results, collected,
                   wpc, addrs, seq, fut, calls, open, dispatched, rejected>>

InitBatch ==
    /\ module = "verifier"
    /\ \E n \in 1..BatchLen : candidates = [i \in 1..n |-> Person(i)]
    /\ batch_size = 1
    /\ max_workers = 1
    /\ cpc = "batch"
    /\ phase = "personal"
    /\ offset = 0
    /\ batch = <<>>
    /\ tried = <<>>
    /\ results = <<>>
    /\ collected = {}
    /\ ret = [status |-> "none"]
    /\ wpc = <<>>
    /\ addrs = <<>>
    /\ seq = <<>>
    /\ fut = <<>>
    /\ calls = <<>>
    /\ open = {}
    /\ dispatched = {}
    /\ rejected = {}

NextBatch ==
    \/ BatchVerify
    \/ BatchChoose

SpecBatch == InitBatch /\ [][NextBatch]_vars

\* ------------------------------------------------------------ properties
\* Future k holds a result (its verify_email call returned).
Returned(k) == fut[k].state = "done" /\ ~fut[k].raised

\* The step in which the verify_email call of future k runs the analysis
\* and the decision on the probe sequence seq[k].
Decides(k) == wpc[k] = "analyze" /\ wpc'[k] = "done"

\* verify_bulk_emails' results hold the result of batch[k].
Delivered(k) == \E i \in 1..Len(results) : results[i].email = batch[k]

\* C1: one candidate's transport failure never aborts the batch: once the
\* bulk call has ended, it has returned normally (not raised) and the result
\* of every candidate whose own verification returned is among its results.
C1_FailureIsolated ==
    \A k \in Slots :
        (Returned(k) /\ cpc \in {"scan", "returned", "raised"})
        => /\ cpc # "raised"
           /\ Delivered(k)

\* C2: a probe session that fails at the connect, greeting or sender stage
\* yields the single "__connect__" record with a null code, and verify_email
\* on that sequence returns (does not raise) deliverable = false,
\* is_catch_all = false, code = null and reasoning = smtp_error.
C2_ConnectFailureDegrades ==
    [][\A k \in DOMAIN wpc :
        /\ (wpc[k] = "probe" /\ wpc'[k] = "analyze") =>
              /\ Len(seq'[k]) = 1
              /\ seq'[k][1].addr = "__connect__"
              /\ seq'[k][1].code = None
        /\ (Decides(k) /\ Len(seq[k]) = 1) =>
              /\ ~fut'[k].raised
              /\ fut'[k].result.deliverable = FALSE
              /\ fut'[k].result.is_catch_all = "False"
              /\ fut'[k].result.code = None
              /\ fut'[k].result.reasoning = "smtp_error"]_vars

\* C3: the result find_email_for_person returns as found is deliverable and
\* not catch-all.
C3_FoundIsNotCatchAll ==
    ret.status \in {"found", "found_company"} =>
        /\ ret.record.deliverable
        /\ ret.record.is_catch_all = "False"

\* Future k completed with a deliverable, non-catch-all result.
Winner(k) ==
    /\ Returned(k)
    /\ fut[k].result.deliverable
    /\ fut[k].result.is_catch_all = "False"

\* The coordinator sits in as_completed with nothing to take: every future it
\* has not yet consumed is still pending.
WaitingOnProbes ==
    /\ cpc = "collect"
    /\ Slots \ collected # {}
    /\ \A j \in Slots \ collected : fut[j].state = "pending"

\* C4: once the coordinator holds a winning result, it does not wait for the
\* other verifications of the batch.
C4_NoWaitAfterWinner ==
    ~(module = "main" /\ WaitingOnProbes /\ \E k \in collected : Winner(k))

\* Future k completed undeliverable: a reject, an ambiguous code, or a probe
\* failure (which src/main.py turns into an exception of the call).
Loser(k) == fut[k].state = "done" /\ (fut[k].raised \/ ~fut[k].result.deliverable)

\* C5: when exactly one candidate of a batch is deliverable and non-catch-all
\* and every other candidate is undeliverable, the coordinator ends by
\* returning that candidate, whatever the completion order.
C5_SingleWinnerChosen ==
    \A k \in Slots :
        (/\ module = "main"
         /\ Winner(k)
         /\ \A j \in Slots \ {k} : Loser(j)
         /\ cpc \notin {"collect", "scan", "unwind"})
        => /\ cpc = "returned"
           /\ ret.status \in {"found", "found_company"}
           /\ ret.email = batch[k]

\* C6: for a three-record sequence whose two decoy codes are 250, the
\* analyzer reports is_catch_all = true, whatever the real code (null too).
C6_DecoysAcceptedIsCatchAll ==
    [][\A k \in DOMAIN wpc :
        (/\ Decides(k)
         /\ Len(seq[k]) = 3
         /\ seq[k][1].code = 250
         /\ seq[k][3].code = 250)
        => /\ ~fut'[k].raised
           /\ fut'[k].result.is_catch_all = "True"]_vars

\* C7: for a sequence of entropy 1 whose real code (position 1) is 250, the
\* analyzer reports is_catch_all = true, even with null decoy codes.
C7_FlatEntropyIsCatchAll ==
    [][\A k \in DOMAIN wpc :
        (/\ Decides(k)
         /\ Len(seq[k]) >= 3
         /\ Entropy(seq[k]) = 1
         /\ seq[k][2].code = 250)
        => /\ ~fut'[k].raised
           /\ fut'[k].result.is_catch_all = "True"]_vars

\* C8: for a three-record sequence, the stored smtp code is the code of the
\* record at position 1 and the verdict is the one that code gives, null
\* decoy codes or not.
C8_RealCodeIsPositionOne ==
    [][\A k \in DOMAIN wpc :
        (Decides(k) /\ Len(seq[k]) = 3)
        => /\ ~fut'[k].raised
           /\ fut'[k].result.code = seq[k][2].code
           /\ fut'[k].result.deliverable = (seq[k][2].code = 250)]_vars

\* C9: when the transport answered 550 to the real probe, verify_email
\* returns status undeliverable, deliverable false, score 0.0 and reasoning
\* 550_hard_fail, whatever happened to the decoy checks.
C9_HardFail ==
    [][\A k \in DOMAIN wpc :
        (/\ Decides(k)
         /\ Len(seq[k]) >= 3
         /\ seq[k][2].code = 550)
        => /\ ~fut'[k].raised
           /\ fut'[k].result.status = "undeliverable"
           /\ fut'[k].result.deliverable = FALSE
           /\ fut'[k].result.verification_score = SCORE_ZERO
           /\ fut'[k].result.reasoning = "550_hard_fail"]_vars

\* C10: a result whose real code (the stored smtp code) is 250 has status
\* deliverable and deliverable = true, with score 0.98 when is_catch_all is
\* false and 0.85 when it is true.
C10_AcceptedIsDeliverable ==
    \A k \in DOMAIN fut :
        (Returned(k) /\ fut[k].result.code = 250)
        => /\ fut[k].result.status = "deliverable"
           /\ fut[k].result.deliverable
           /\ fut[k].result.is_catch_all \in {"True", "False"}
           /\ fut[k].result.verification_score =
                 IF fut[k].result.is_catch_all = "False" THEN SCORE_OK ELSE SCORE_CATCH_ALL

\* A returned result with code 250 on a catch-all exchanger.
C10_Witness ==
    \E k \in DOMAIN fut :
        /\ Returned(k)
        /\ fut[k].result.code = 250
        /\ fut[k].result.is_catch_all = "True"
        /\ fut[k].result.verification_score = SCORE_CATCH_ALL

\* C11: a candidate that fails the syntax pattern gets deliverable = false,
\* status "undeliverable" and reasoning "bad_syntax", and no network
\* operation (MX lookup, connect, or any SMTP command) was issued for it.
C11_BadSyntaxNoNetwork ==
    \A k \in DOMAIN fut :
        (Returned(k) /\ fut[k].result.reasoning = "bad_syntax")
            => /\ fut[k].result.deliverable = FALSE
               /\ fut[k].result.status = "undeliverable"
               /\ calls[k] = <<>>

C11_Witness ==
    \E k \in DOMAIN fut :
        /\ Returned(k)
        /\ fut[k].result.reasoning = "bad_syntax"
        /\ fut[k].result.email = batch[k]

\* C12: a candidate whose MX lookup raises or returns no record gets
\* deliverable = false, status "undeliverable" and reasoning "no_mx"; the
\* lookup was issued exactly once and no SMTP connection was attempted.
C12_NoMxNoConnection ==
    \A k \in DOMAIN fut :
        (Returned(k) /\ fut[k].result.reasoning = "no_mx")
            => /\ fut[k].result.deliverable = FALSE
               /\ fut[k].result.status = "undeliverable"
               /\ calls[k] = <<"mx">>

C12_Witness ==
    \E k \in DOMAIN fut :
        /\ Returned(k)
        /\ fut[k].result.reasoning = "no_mx"
        /\ calls[k] # <<>>


\* C13: every SMTP session that a probe connected is closed by the time
\* smtp_multi_probe has returned, whichever path the probe took: three
\* recipient checks, a failed recipient check, or a helo or mail failure
\* after the connect.
C13_SessionClosedOnReturn ==
    \A k \in DOMAIN wpc :
        wpc[k] \in {"analyze", "done"} => batch[k] \notin open

\* C14: at every moment the number of SMTP sessions that are connected and
\* not yet closed is at most max_workers.
C14_OpenSessionsBounded ==
    Cardinality(open) <= max_workers

\* The sequence a probe would have returned had random_local() produced d1
\* and d2 and the transport answered the same way: the same codes, messages
\* and latencies, with the decoy addresses replaced.
Redecoyed(s, d1, d2) ==
    [i \in 1..Len(s) |->
        IF s[i].latency = None \/ i = 2 THEN s[i]
        ELSE [s[i] EXCEPT !.addr = <<"decoy", IF i = 1 THEN d1 ELSE d2>>]]

\* C15: with the transport's codes, messages and latencies fixed, the status,
\* score and reasoning verify_email returns (or its raising) are the same
\* for every pair of decoy local-parts random_local() could have produced.
C15_DecoysDoNotDecide ==
    [][\A k \in DOMAIN wpc :
          Decides(k) =>
              \A d1 \in AllLocals, d2 \in AllLocals :
                  LET other == VerifyTail(module, batch[k], Redecoyed(seq[k], d1, d2))
                      this == fut'[k]
                  IN  /\ other.raised = this.raised
                      /\ other.result.status = this.result.status
                      /\ other.result.verification_score = this.result.verification_score
                      /\ other.result.reasoning = this.result.reasoning]_vars

\* A verification that is about to decide on three answered checks whose two
\* decoys differ and were both accepted.
C15_Witness ==
    \E k \in DOMAIN wpc :
        /\ wpc[k] = "analyze"
        /\ Len(seq[k]) = 3
        /\ seq[k][1].addr # seq[k][3].addr
        /\ seq[k][1].code = 250
        /\ seq[k][3].code = 250
        /\ Redecoyed(seq[k], "r1", "r1") # seq[k]

\* C16: when verify_batch has collected a batch in which every probe
\* returned code 250 and exactly one candidate's latency lies above the
\* batch mean plus two standard deviations, the chosen result is that
\* candidate's.
C16_OutlierChosen ==
    (cpc = "returned" /\ ret.status = "batch")
        => \A i \in 1..Len(ret.results) :
               (/\ \A j \in 1..Len(ret.results) : ret.results[j].smtp_code = 250
                /\ Outliers(ret.results) = {i})
                   => ret.chosen = ret.results[i]

\* A returned batch of accepted probes whose only outlier is not the first
\* candidate.
C16_Witness ==
    /\ cpc = "returned"
    /\ ret.status = "batch"
    /\ \A j \in 1..Len(ret.results) : ret.results[j].smtp_code = 250
    /\ \E i \in 2..Len(ret.results) :
        /\ Outliers(ret.results) = {i}
        /\ ret.chosen.email = candidates[i]

\* The step in which find_email_for_person hands a chunk to the verifier.
Dispatches == module = "main" /\ cpc = "loop" /\ cpc' = "collect"

\* C17: find_email_for_person dispatches a chunk only when every candidate
\* dispatched before it has completed with a result that is not deliverable;
\* the chunk is the next slice of the current list, a generic address is
\* dispatched only when every person-derived candidate has been dispatched
\* before, and once the function has returned (a winner or not) nothing is
\* dispatched any more.
C17_DispatchInOrder ==
    [][/\ Dispatches =>
            /\ ret.status = "none"
            /\ \A k \in DOMAIN fut :
                  /\ fut[k].state = "done"
                  /\ ~fut[k].raised
                  /\ ~fut[k].result.deliverable
            /\ batch' # <<>>
            /\ batch' = SubSeq(CurrentList, offset + 1, offset + Len(batch'))
            /\ (batch # <<>> /\ offset > 0) => batch[Len(batch)] = CurrentList[offset]
            /\ phase = "general"
                  => /\ SubSeq(tried, 1, Len(candidates)) = candidates
                     /\ offset = 0 => (batch = <<>> <=> candidates = <<>>)
                     /\ (offset = 0 /\ batch # <<>>)
                            => batch[Len(batch)] = candidates[Len(candidates)]
       /\ (module = "main" /\ cpc \in {"returned", "raised"})
            => UNCHANGED <<batch, wpc, fut>>]_vars

\* A later chunk is in flight: a second person chunk or a generic chunk of a
\* search that had person-derived candidates.
C17_Witness ==
    /\ module = "main"
    /\ cpc = "collect"
    /\ batch # <<>>
    /\ candidates # <<>>
    /\ offset > 0 \/ phase = "general"

\* A record of a recipient check (the handler's "__connect__" record has no
\* latency).
IsRecipientRecord(rec) == rec.latency # None

\* The step in which the probe of future k makes one recipient check.
ChecksRecipient(k) == wpc[k] = "rcpt" /\ calls'[k] # calls[k]

\* C18: inside one probe session every recipient check, failed or not, adds
\* one record for its own slot and leaves the records of the other slots as
\* they are; the next check is then issued (or, after the third, the quit),
\* so that the sequence has three records with the real target at position 1.
C18_RecipientFailureContained ==
    [][\A k \in DOMAIN wpc :
          ChecksRecipient(k) =>
              LET i == Len(seq[k]) + 1
              IN  /\ Len(seq'[k]) = i
                  /\ SubSeq(seq'[k], 1, i - 1) = seq[k]
                  /\ IsRecipientRecord(seq'[k][i])
                  /\ seq'[k][i].addr = addrs[k][i]
                  /\ i = 2 => seq'[k][i].addr = batch[k]
                  /\ wpc'[k] = IF i = 3 THEN "quit" ELSE "rcpt"]_vars

\* C19: the sequence smtp_multi_probe returns is either exactly three
\* recipient records in the order decoy, real target, decoy, or exactly the
\* one "__connect__" record; recipient records are never followed by a
\* "__connect__" record.
C19_ThreeRecordsOrOne ==
    \A k \in DOMAIN wpc :
        wpc[k] = "analyze" =>
            \/ /\ Len(seq[k]) = 3
               /\ \A i \in 1..3 :
                     /\ IsRecipientRecord(seq[k][i])
                     /\ seq[k][i].addr = addrs[k][i]
            \/ /\ Len(seq[k]) = 1
               /\ ~IsRecipientRecord(seq[k][1])
               /\ seq[k][1].addr = "__connect__"

\* C20: in every result verify_email returns, whatever the path, these four
\* agree: deliverable is true, status is "deliverable", the stored smtp
\* code is 250, and verification_score is greater than 0.
C20_VerdictFieldsAgree ==
    \A k \in DOMAIN fut :
        Returned(k) =>
            LET r == fut[k].result
            IN  /\ r.deliverable <=> (r.status = "deliverable")
                /\ r.deliverable <=> (r.code = 250)
                /\ r.deliverable <=> (r.verification_score > 0)

\* A returned result with all four set: an accepted address that is not a
\* catch-all.
C20_Witness ==
    \E k \in DOMAIN fut :
        /\ Returned(k)
        /\ fut[k].result.deliverable
        /\ fut[k].result.code = 250
        /\ fut[k].result.verification_score = SCORE_OK
        /\ fut[k].result.is_catch_all = "False"

\* C21: find_email_for_person returns "not_found" only when every
\* person-derived candidate and every generic address has been verified and
\* found not deliverable, and every address of the returned tried list has
\* been dispatched to the verifier, whatever integer batch_size is.
C21_NotFoundIsExhaustive ==
    (cpc = "returned" /\ ret.status = "not_found")
        => /\ Range(candidates) \cup Range(GeneralList) \subseteq rejected
           /\ Range(ret.tried) \subseteq dispatched

====
